---- MODULE Spec2Model ----
(***************************************************************************)
(* A model of src/utils.py, the utility functions of "Intro to Neural      *)
(* Spike Analysis": select_spikes_around_stimuli, select_brain_area,       *)
(* clip_spikes, spikes_to_neo and find_synchronous_spikes.                  *)
(*                                                                         *)
(* A spike table (pandas DataFrame) is a sequence of rows                  *)
(* [spike_time, unit_id, brain_area]; a stimulus table is a sequence of    *)
(* rows [start_time].  Timestamps are integers (a fixed-point grid of the  *)
(* float64 seconds): the code only adds, compares and tests them for       *)
(* equality.  A string is a sequence of one-character strings, so that     *)
(* str.upper() is computed character by character.  The float NaN that     *)
(* pandas returns for the minimum of an empty column is modelled           *)
(* explicitly (see NaN, FAdd, FLe).                                        *)
(*                                                                         *)
(* Each function is an operator translated from its code.  Each            *)
(* specification draws the arguments of one function in its initial        *)
(* states, and its action performs the call: pc goes from "call" to        *)
(* "done", ret holds the returned value and exc the raised exception.      *)
(* load_spike_trains is modelled statement by statement: pc names the      *)
(* statement to run next.                                                  *)
(***************************************************************************)
EXTENDS Integers, Sequences, FiniteSets

VARIABLES
    spikes,        \* argument: the spike table
    stimuli,       \* argument: the stimulus table
    tmin,          \* argument of select_spikes_around_stimuli
    tmax,          \* argument of select_spikes_around_stimuli
    brain_area,    \* argument of select_brain_area
    max_dur,       \* argument of clip_spikes
    min_spikes,    \* argument of spikes_to_neo
    spike_trains,  \* argument of find_synchronous_spikes
    pc,            \* "call" before the call, "done" after it, "reclipped"
    ret,           \* the value returned (meaningful when exc = "none")
    exc,           \* "none", or the type of the exception raised
    exc_args,      \* the values the exception's message reports
    reclip,        \* the second clip_spikes call: [max_dur, ret]
    trace          \* load_spike_trains: the calls made so far, each with
                   \* the spike table it was given

vars == <<spikes, stimuli, tmin, tmax, brain_area, max_dur, min_spikes,
          spike_trains, pc, ret, exc, exc_args, reclip, trace>>

\* ------------------------------------------------------------------ bounds
MaxTime == 2         \* spike timestamps are 0..MaxTime
MaxRows == 3         \* a spike table has at most MaxRows rows
NumUnits == 2        \* unit ids are 1..NumUnits
MaxStim == 2         \* a stimulus table has at most MaxStim rows
MaxOnset == 1        \* stimulus onsets are 0..MaxOnset
MaxOff == 1          \* window offsets tmin, tmax are -1..MaxOff

Times == 0..MaxTime
Units == 1..NumUnits
Onsets == 0..MaxOnset
Offsets == (-1)..MaxOff

\* ------------------------------------------------------------ data model
\* A string of the model: "LM" is <<"L", "M">>.
AreaV == <<"V">>
AreaLM == <<"L", "M">>
AreaLm == <<"l", "m">>

Row(t, u, a) == [spike_time |-> t, unit_id |-> u, brain_area |-> a]

SeqsUpTo(S, n) == UNION {[1..k -> S] : k \in 0..n}

\* Tables whose rows are told apart by their position: row i has unit_id i.
IndexedTables(T, A) ==
    UNION {{[i \in 1..k |-> Row(ts[i], i, as[i])] : ts \in [1..k -> T], as \in [1..k -> A]}
           : k \in 0..MaxRows}

StimulusTables == SeqsUpTo([start_time : Onsets], MaxStim)

\* df[col].values
Column(df, col) == [i \in 1..Len(df) |-> df[i][col]]

\* df[mask]: boolean-mask indexing keeps the rows whose mask entry is True,
\* in the order of df.
RECURSIVE BoolIndex(_, _)
BoolIndex(df, mask) ==
    IF Len(df) = 0 THEN <<>>
    ELSE (IF mask[1] THEN <<df[1]>> ELSE <<>>)
         \o BoolIndex(SubSeq(df, 2, Len(df)), SubSeq(mask, 2, Len(mask)))

\* --------------------------------------------- select_spikes_around_stimuli
\* A faulty variant: the upper bound of the window made inclusive.
select_spikes_inclusive(spikes_, stimuli_, tmin_, tmax_) ==
    LET spike_times == Column(spikes_, "spike_time")
        stim_times == Column(stimuli_, "start_time")
        selected_spikes_mask ==
            [i \in 1..Len(spike_times) |->
                \E j \in 1..Len(stim_times) :
                    /\ spike_times[i] >= stim_times[j] + tmin_
                    /\ spike_times[i] <= stim_times[j] + tmax_]
    IN  BoolIndex(spikes_, selected_spikes_mask)

select_spikes_around_stimuli(spikes_, stimuli_, tmin_, tmax_) ==
    LET spike_times == Column(spikes_, "spike_time")
        stim_times == Column(stimuli_, "start_time")
        condition_matrix ==
            [i \in 1..Len(spike_times) |->
                [j \in 1..Len(stim_times) |->
                    /\ spike_times[i] >= stim_times[j] + tmin_
                    /\ spike_times[i] < stim_times[j] + tmax_]]
        \* condition_matrix.any(axis=1)
        selected_spikes_mask ==
            [i \in 1..Len(spike_times) |->
                \E j \in 1..Len(stim_times) : condition_matrix[i][j]]
    IN  BoolIndex(spikes_, selected_spikes_mask)

\* The arguments no call of the specification at hand reads.
NoTable == <<>>
NoArea == <<>>
NoReclip == [max_dur |-> 0, ret |-> <<>>]

InitSelect ==
    /\ spikes \in IndexedTables(Times, {AreaV})
    /\ stimuli \in StimulusTables
    /\ tmin \in Offsets
    /\ tmax \in Offsets
    /\ brain_area = NoArea
    /\ max_dur = 0
    /\ min_spikes = 0
    /\ spike_trains = <<>>
    /\ pc = "call"
    /\ ret = <<>>
    /\ exc = "none"
    /\ exc_args = <<>>
    /\ reclip = NoReclip
    /\ trace = <<>>

\* The call select_spikes_around_stimuli(spikes, stimuli, tmin, tmax): the
\* function has no raise statement and no operation that fails on an empty
\* column (the condition matrix of shape (n, 0) or (0, m) is well defined).
SelectSpikesAroundStimuli ==
    /\ pc = "call"
    /\ ret' = select_spikes_around_stimuli(spikes, stimuli, tmin, tmax)
    /\ exc' = "none"
    /\ exc_args' = <<>>
    /\ pc' = "done"
    /\ UNCHANGED <<spikes, stimuli, tmin, tmax, brain_area, max_dur,
                   min_spikes, spike_trains, reclip, trace>>

NextSelect == SelectSpikesAroundStimuli

SpecSelect == InitSelect /\ [][NextSelect]_vars

\* ------------------------------------------------------------------ C1
\* Some stimulus window [o + tmin, o + tmax) contains the timestamp t.
InSomeWindow(t) ==
    \E j \in 1..Len(stimuli) :
        /\ stimuli[j].start_time + tmin <= t
        /\ t < stimuli[j].start_time + tmax

KeptBySelect == {i \in 1..Len(spikes) : InSomeWindow(spikes[i].spike_time)}

\* C1: for tmin < tmax the call returns without error exactly the rows of
\* the input whose timestamp lies in some half-open window
\* [o + tmin, o + tmax), in input order and nothing else: the k-th returned
\* row is the k-th such row of the input.  A spike at o + tmin is kept, a
\* spike at o + tmax is kept only if another window contains it, and with no
\* stimuli or no spikes the result is empty.
C1_SelectExactlyWindowed ==
    (pc = "done" /\ tmin < tmax) =>
        /\ exc = "none"
        /\ Len(ret) = Cardinality(KeptBySelect)
        /\ \A i \in KeptBySelect :
               ret[Cardinality({j \in KeptBySelect : j <= i})] = spikes[i]
        /\ \A i \in 1..Len(spikes) : \A j \in 1..Len(stimuli) :
               /\ spikes[i].spike_time = stimuli[j].start_time + tmin
                      => \E k \in 1..Len(ret) : ret[k] = spikes[i]
               /\ (/\ spikes[i].spike_time = stimuli[j].start_time + tmax
                   /\ \E k \in 1..Len(ret) : ret[k] = spikes[i])
                      => \E j2 \in 1..Len(stimuli) :
                             /\ j2 # j
                             /\ stimuli[j2].start_time + tmin <= spikes[i].spike_time
                             /\ spikes[i].spike_time < stimuli[j2].start_time + tmax
        /\ (Len(stimuli) = 0 \/ Len(spikes) = 0) => ret = <<>>

\* A call with tmin < tmax that keeps a spike on a lower boundary, drops a
\* spike on an upper boundary and keeps a spike on an upper boundary that a
\* second window contains.
C1_Witness ==
    /\ pc = "done"
    /\ tmin < tmax
    /\ \E i \in 1..Len(spikes) : \E j \in 1..Len(stimuli) :
           /\ spikes[i].spike_time = stimuli[j].start_time + tmin
           /\ \E k \in 1..Len(ret) : ret[k] = spikes[i]
    /\ \E i \in 1..Len(spikes) : \E j \in 1..Len(stimuli) :
           /\ spikes[i].spike_time = stimuli[j].start_time + tmax
           /\ \A k \in 1..Len(ret) : ret[k] # spikes[i]
    /\ \E i \in 1..Len(spikes) : \E j \in 1..Len(stimuli) :
           /\ spikes[i].spike_time = stimuli[j].start_time + tmax
           /\ \E k \in 1..Len(ret) : ret[k] = spikes[i]

\* ------------------------------------------------------------------ C6
\* C6: a call with tmin >= tmax fails with an error (InvalidWindow) instead
\* of returning a table.
C6_InvalidWindowRaises ==
    (pc = "done" /\ tmin >= tmax) => exc # "none"

\* ------------------------------------------------------- select_brain_area
\* str.upper() on one character (the characters of the modelled names).
UpperChar(c) ==
    CASE c = "l" -> "L"
      [] c = "m" -> "M"
      [] c = "v" -> "V"
      [] c = "z" -> "Z"
      [] OTHER -> c

\* str.upper()
Upper(s) == [i \in 1..Len(s) |-> UpperChar(s[i])]

\* Series.unique(): the distinct values in order of first appearance.
RECURSIVE PdUnique(_)
PdUnique(s) ==
    IF Len(s) = 0 THEN <<>>
    ELSE LET front == PdUnique(SubSeq(s, 1, Len(s) - 1))
             last == s[Len(s)]
         IN  IF \E k \in 1..Len(front) : front[k] = last
             THEN front
             ELSE Append(front, last)

\* x in array
Contains(array, x) == \E k \in 1..Len(array) : array[k] = x

\* What a call does: it returns a value or raises an exception.
Return(value) == [exc |-> "none", exc_args |-> <<>>, ret |-> value]
Raise(type, args) == [exc |-> type, exc_args |-> args, ret |-> <<>>]

\* A faulty variant: the requested name is compared as given, not uppercased.
select_brain_area_no_upper(spikes_, brain_area_) ==
    LET all_brain_areas == PdUnique(Column(spikes_, "brain_area"))
    IN  IF ~Contains(all_brain_areas, brain_area_)
        THEN Raise("ValueError", <<brain_area_>> \o all_brain_areas)
        ELSE Return(BoolIndex(spikes_,
                 [i \in 1..Len(spikes_) |-> spikes_[i].brain_area = brain_area_]))

\* The ValueError's message names the uppercased request and then
\* all_brain_areas: exc_args is that list.
select_brain_area(spikes_, brain_area_) ==
    LET all_brain_areas == PdUnique(Column(spikes_, "brain_area"))
        brain_area_upper == Upper(brain_area_)
    IN  IF ~Contains(all_brain_areas, brain_area_upper)
        THEN Raise("ValueError", <<brain_area_upper>> \o all_brain_areas)
        ELSE Return(BoolIndex(spikes_,
                 [i \in 1..Len(spikes_) |-> spikes_[i].brain_area = brain_area_upper]))

\* The brain_area values of the tables and the names a caller asks for.
TableAreas == {AreaV, AreaLM, AreaLm}
RequestedAreas == {AreaLM, AreaLm, <<"L", "m">>, <<"v">>, <<"Z", "Z">>, <<"z", "z">>}

InitBrainArea ==
    /\ spikes \in IndexedTables(Times, TableAreas)
    /\ brain_area \in RequestedAreas
    /\ stimuli = NoTable
    /\ tmin = 0
    /\ tmax = 0
    /\ max_dur = 0
    /\ min_spikes = 0
    /\ spike_trains = <<>>
    /\ pc = "call"
    /\ ret = <<>>
    /\ exc = "none"
    /\ exc_args = <<>>
    /\ reclip = NoReclip
    /\ trace = <<>>

\* The call select_brain_area(spikes, brain_area).
SelectBrainArea ==
    /\ pc = "call"
    /\ LET r == select_brain_area(spikes, brain_area)
       IN  /\ ret' = r.ret
           /\ exc' = r.exc
           /\ exc_args' = r.exc_args
    /\ pc' = "done"
    /\ UNCHANGED <<spikes, stimuli, tmin, tmax, brain_area, max_dur,
                   min_spikes, spike_trains, reclip, trace>>

NextBrainArea == SelectBrainArea

SpecBrainArea == InitBrainArea /\ [][NextBrainArea]_vars

\* ------------------------------------------------------------------ C7
\* The uppercase form of each requested name, written out.
UppercaseOf(a) ==
    CASE a = <<"L", "M">> -> <<"L", "M">>
      [] a = <<"l", "m">> -> <<"L", "M">>
      [] a = <<"L", "m">> -> <<"L", "M">>
      [] a = <<"v">> -> <<"V">>
      [] a = <<"Z", "Z">> -> <<"Z", "Z">>
      [] a = <<"z", "z">> -> <<"Z", "Z">>

RowsOfArea(a) == {i \in 1..Len(spikes) : spikes[i].brain_area = a}

\* C7: the request is uppercased before it is compared.  If the uppercased
\* name is one of the table's brain_area values, the call returns exactly
\* the rows with that value, in input order; otherwise (also on an empty
\* table) it raises an error whose message reports the table's distinct
\* brain_area values, each once, and it returns no table.
C7_BrainAreaFilterOrError ==
    pc = "done" =>
        LET want == UppercaseOf(brain_area)
            rows == RowsOfArea(want)
        IN  /\ rows # {} =>
                /\ exc = "none"
                /\ Len(ret) = Cardinality(rows)
                /\ \A i \in rows :
                       ret[Cardinality({j \in rows : j <= i})] = spikes[i]
            /\ rows = {} =>
                /\ exc = "ValueError"
                /\ Len(exc_args) >= 1
                /\ {exc_args[k] : k \in 2..Len(exc_args)}
                       = {spikes[i].brain_area : i \in 1..Len(spikes)}
                /\ \A k, l \in 2..Len(exc_args) :
                       exc_args[k] = exc_args[l] => k = l

\* A request in lower case for a value the table holds in lower case only:
\* the uppercased name is unknown and the error reports two distinct values.
C7_Witness ==
    /\ pc = "done"
    /\ exc = "ValueError"
    /\ \E i \in 1..Len(spikes) : spikes[i].brain_area = brain_area
    /\ Len(exc_args) = 3

\* -------------------------------------------------------------- clip_spikes
\* A float64 value: a number, or NaN.
NaN == [nan |-> TRUE, v |-> 0]
Num(x) == [nan |-> FALSE, v |-> x]

\* Series.min(): the least value; NaN for an empty column (pandas raises
\* nothing there).
SeriesMin(s) ==
    IF Len(s) = 0 THEN NaN
    ELSE Num(CHOOSE m \in {s[i] : i \in 1..Len(s)} :
                 \A i \in 1..Len(s) : m <= s[i])

\* Float addition: NaN + x is NaN.
FAdd(a, b) == IF a.nan \/ b.nan THEN NaN ELSE Num(a.v + b.v)

\* Float a <= b: False when either side is NaN.
FLe(a, b) == ~a.nan /\ ~b.nan /\ a.v <= b.v

\* A faulty variant: the boundary t_stop made exclusive.
clip_spikes_exclusive(spikes_, max_dur_) ==
    LET t_stop == FAdd(SeriesMin(Column(spikes_, "spike_time")), Num(max_dur_))
    IN  BoolIndex(spikes_,
            [i \in 1..Len(spikes_) |->
                ~t_stop.nan /\ spikes_[i].spike_time < t_stop.v])

clip_spikes(spikes_, max_dur_) ==
    LET t_stop == FAdd(SeriesMin(Column(spikes_, "spike_time")), Num(max_dur_))
    IN  BoolIndex(spikes_,
            [i \in 1..Len(spikes_) |-> FLe(Num(spikes_[i].spike_time), t_stop)])

MaxDur == 2          \* durations max_dur are -1..MaxDur
Durations == (-1)..MaxDur

InitClip ==
    /\ spikes \in IndexedTables(Times, {AreaV})
    /\ max_dur \in Durations
    /\ stimuli = NoTable
    /\ tmin = 0
    /\ tmax = 0
    /\ brain_area = NoArea
    /\ min_spikes = 0
    /\ spike_trains = <<>>
    /\ pc = "call"
    /\ ret = <<>>
    /\ exc = "none"
    /\ exc_args = <<>>
    /\ reclip = NoReclip
    /\ trace = <<>>

\* The call clip_spikes(spikes, max_dur): the function has no raise
\* statement, and min() of an empty column is NaN, not an error.
ClipSpikes ==
    /\ pc = "call"
    /\ ret' = clip_spikes(spikes, max_dur)
    /\ exc' = "none"
    /\ exc_args' = <<>>
    /\ pc' = "done"
    /\ UNCHANGED <<spikes, stimuli, tmin, tmax, brain_area, max_dur,
                   min_spikes, spike_trains, reclip, trace>>

\* The caller clips the returned table again: clip_spikes(ret, d2).
ClipAgain ==
    /\ pc = "done"
    /\ exc = "none"
    /\ \E d2 \in Durations :
           reclip' = [max_dur |-> d2, ret |-> clip_spikes(ret, d2)]
    /\ pc' = "reclipped"
    /\ UNCHANGED <<spikes, stimuli, tmin, tmax, brain_area, max_dur,
                   min_spikes, spike_trains, ret, exc, exc_args, trace>>

NextClip == ClipSpikes \/ ClipAgain

SpecClip == InitClip /\ [][NextClip]_vars

\* ------------------------------------------------------------------ C5
\* C5: clip_spikes on an empty spike table fails with an error (EmptyInput)
\* for every max_dur; it never returns an empty table silently.
C5_ClipEmptyRaises ==
    (pc = "done" /\ Len(spikes) = 0) => exc # "none"

\* ------------------------------------------------------------------ C10
\* The least timestamp of the (non-empty) input table.
FirstSpikeTime ==
    CHOOSE m \in Times :
        /\ \E i \in 1..Len(spikes) : spikes[i].spike_time = m
        /\ \A i \in 1..Len(spikes) : m <= spikes[i].spike_time

KeptByClip == {i \in 1..Len(spikes) : spikes[i].spike_time <= FirstSpikeTime + max_dur}

\* C10: on a non-empty table clip_spikes(s, d) keeps exactly the rows with
\* timestamp <= min(timestamps of s) + d, the boundary included, in input
\* order; and for d2 >= d1 > 0, clip_spikes(clip_spikes(s, d1), d2) equals
\* clip_spikes(s, d1).
C10_ClipIdempotent ==
    /\ (pc \in {"done", "reclipped"} /\ Len(spikes) > 0) =>
           /\ exc = "none"
           /\ Len(ret) = Cardinality(KeptByClip)
           /\ \A i \in KeptByClip :
                  ret[Cardinality({j \in KeptByClip : j <= i})] = spikes[i]
    /\ (/\ pc = "reclipped"
        /\ Len(spikes) > 0
        /\ max_dur > 0
        /\ reclip.max_dur >= max_dur) => reclip.ret = ret

\* A re-clipping with d2 > d1 > 0 of a table where the first clipping kept
\* a spike on the boundary min + d1 and dropped a spike that lies within
\* min + d2.
C10_Witness ==
    /\ pc = "reclipped"
    /\ max_dur > 0
    /\ reclip.max_dur > max_dur
    /\ \E k \in 1..Len(ret) : ret[k].spike_time = FirstSpikeTime + max_dur
    /\ \E i \in 1..Len(spikes) :
           /\ spikes[i].spike_time > FirstSpikeTime + max_dur
           /\ spikes[i].spike_time <= FirstSpikeTime + reclip.max_dur
    /\ reclip.ret = ret

\* ------------------------------------------------------------ spikes_to_neo
\* Series.max(): the greatest value; NaN for an empty column.
SeriesMax(s) ==
    IF Len(s) = 0 THEN NaN
    ELSE Num(CHOOSE m \in {s[i] : i \in 1..Len(s)} :
                 \A i \in 1..Len(s) : m >= s[i])

\* neo's SpikeTrain(times, t_start, t_stop, name): the object keeps the
\* times array as it is given.  unit_id is not a field of the object: it
\* records the value of the loop variable the train was built for.
SpikeTrain(spike_times, t_stop, t_start, name, unit_id) ==
    [times |-> spike_times, t_start |-> t_start, t_stop |-> t_stop,
     name |-> name, unit_id |-> unit_id]

\* spikes[spikes["unit_id"] == unit_id]
RowsOfUnit(spikes_, unit_id) ==
    BoolIndex(spikes_, [i \in 1..Len(spikes_) |-> spikes_[i].unit_id = unit_id])

\* The train built in one iteration of the loop over the unit ids.
TrainOfUnit(spikes_, unit_id) ==
    LET t_start == FAdd(SeriesMin(Column(spikes_, "spike_time")), Num(-1))
        t_stop == FAdd(SeriesMax(Column(spikes_, "spike_time")), Num(1))
        area == RowsOfUnit(spikes_, unit_id)[1].brain_area
        spike_times == Column(RowsOfUnit(spikes_, unit_id), "spike_time")
    IN  SpikeTrain(spike_times, t_stop, t_start, area, unit_id)

\* A faulty variant: a train is kept when it has at least min_spikes spikes.
spikes_to_neo_at_least(spikes_, min_spikes_) ==
    LET unit_ids == PdUnique(Column(spikes_, "unit_id"))
        trains == [k \in 1..Len(unit_ids) |-> TrainOfUnit(spikes_, unit_ids[k])]
    IN  BoolIndex(trains,
            [k \in 1..Len(trains) |-> Len(trains[k].times) >= min_spikes_])

\* The loop appends the trains in the order of spikes["unit_id"].unique()
\* and skips those with len(times) <= min_spikes.
spikes_to_neo(spikes_, min_spikes_) ==
    LET unit_ids == PdUnique(Column(spikes_, "unit_id"))
        trains == [k \in 1..Len(unit_ids) |-> TrainOfUnit(spikes_, unit_ids[k])]
    IN  BoolIndex(trains,
            [k \in 1..Len(trains) |-> Len(trains[k].times) > min_spikes_])

MaxMinSpikes == 2    \* thresholds min_spikes are -1..MaxMinSpikes
MinSpikes == (-1)..MaxMinSpikes

Tables(T, U, A) == SeqsUpTo([spike_time : T, unit_id : U, brain_area : A], MaxRows)

InitNeo ==
    /\ spikes \in Tables(Times, Units, {AreaV})
    /\ min_spikes \in MinSpikes
    /\ stimuli = NoTable
    /\ tmin = 0
    /\ tmax = 0
    /\ brain_area = NoArea
    /\ max_dur = 0
    /\ spike_trains = <<>>
    /\ pc = "call"
    /\ ret = <<>>
    /\ exc = "none"
    /\ exc_args = <<>>
    /\ reclip = NoReclip
    /\ trace = <<>>

\* The call spikes_to_neo(spikes, min_spikes).  SpikeTrain raises
\* ValueError for a spike outside [t_start, t_stop]; with t_start the least
\* timestamp minus 1 and t_stop the greatest plus 1 that never happens.
SpikesToNeo ==
    /\ pc = "call"
    /\ ret' = spikes_to_neo(spikes, min_spikes)
    /\ exc' = "none"
    /\ exc_args' = <<>>
    /\ pc' = "done"
    /\ UNCHANGED <<spikes, stimuli, tmin, tmax, brain_area, max_dur,
                   min_spikes, spike_trains, reclip, trace>>

NextNeo == SpikesToNeo

SpecNeo == InitNeo /\ [][NextNeo]_vars

\* ------------------------------------------------------------------ C8
\* The number of rows of the input with unit id u and timestamp t.
RowCount(u, t) ==
    Cardinality({i \in 1..Len(spikes) :
                     spikes[i].unit_id = u /\ spikes[i].spike_time = t})

\* C8: each returned train holds the events of exactly one unit_id (each
\* timestamp as often as that unit has it in the input) and is sorted
\* ascending by timestamp, whether or not the input rows are sorted.
C8_TrainsOneUnitSorted ==
    pc = "done" =>
        \A k \in 1..Len(ret) :
            /\ \A t \in Times :
                   Cardinality({n \in 1..Len(ret[k].times) : ret[k].times[n] = t})
                       = RowCount(ret[k].unit_id, t)
            /\ \A m, n \in 1..Len(ret[k].times) :
                   m < n => ret[k].times[m] <= ret[k].times[n]

\* ------------------------------------------------------------------ C9
UnitCount(u) == Cardinality({i \in 1..Len(spikes) : spikes[i].unit_id = u})

RECURSIVE TotalSpikes(_)
TotalSpikes(trains) ==
    IF Len(trains) = 0 THEN 0
    ELSE Len(trains[1].times) + TotalSpikes(SubSeq(trains, 2, Len(trains)))

\* C9: a unit_id of the input has a train in the output if and only if its
\* number of rows strictly exceeds min_spikes; a unit_id with no row has
\* none; the trains have pairwise distinct unit_ids; each train has as many
\* events as its unit has rows, and with min_spikes = 0 the event counts sum
\* to the number of input rows.
C9_TrainsIffAboveMinSpikes ==
    pc = "done" =>
        /\ exc = "none"
        /\ \A u \in Units :
               (\E k \in 1..Len(ret) : ret[k].unit_id = u)
                   <=> (UnitCount(u) > 0 /\ UnitCount(u) > min_spikes)
        /\ \A k \in 1..Len(ret) : ret[k].unit_id \in Units
        /\ \A k, l \in 1..Len(ret) : ret[k].unit_id = ret[l].unit_id => k = l
        /\ \A k \in 1..Len(ret) : Len(ret[k].times) = UnitCount(ret[k].unit_id)
        /\ min_spikes = 0 => TotalSpikes(ret) = Len(spikes)

\* A call where one unit has exactly min_spikes >= 1 rows and is dropped
\* while another unit has more and is kept.
C9_Witness ==
    /\ pc = "done"
    /\ min_spikes >= 1
    /\ \E u \in Units :
           /\ UnitCount(u) = min_spikes
           /\ \A k \in 1..Len(ret) : ret[k].unit_id # u
    /\ \E u \in Units :
           /\ UnitCount(u) > min_spikes
           /\ \E k \in 1..Len(ret) : ret[k].unit_id = u

\* -------------------------------------------------- find_synchronous_spikes
\* np.concatenate(arrays) for a non-empty list of arrays.  For an empty
\* list numpy raises ValueError ("need at least one array to concatenate"):
\* the callers below model that case themselves.
RECURSIVE Concatenate(_)
Concatenate(arrays) ==
    IF Len(arrays) = 0 THEN <<>>
    ELSE arrays[1] \o Concatenate(SubSeq(arrays, 2, Len(arrays)))

\* The values of the set S in ascending order.
RECURSIVE Ascending(_)
Ascending(S) ==
    IF S = {} THEN <<>>
    ELSE LET least == CHOOSE m \in S : \A x \in S : m <= x
         IN  <<least>> \o Ascending(S \ {least})

\* np.unique(a): the sorted distinct values of a.
NpUnique(a) == Ascending({a[i] : i \in 1..Len(a)})

\* np.where(a == s)[0]: the positions of s in a, ascending.
RECURSIVE Where(_, _)
Where(a, s) ==
    IF Len(a) = 0 THEN <<>>
    ELSE LET front == Where(SubSeq(a, 1, Len(a) - 1), s)
         IN  IF a[Len(a)] = s THEN Append(front, Len(a)) ELSE front

\* a[idx]: index-array indexing.
Take(a, idx) == [k \in 1..Len(idx) |-> a[idx[k]]]

\* A faulty variant: a timestamp is reported from its first occurrence on.
find_synchronous_spikes_any(spike_trains_) ==
    IF Len(spike_trains_) = 0
    THEN Raise("ValueError", <<>>)
    ELSE
    LET all_spikes ==
            Concatenate([i \in 1..Len(spike_trains_) |-> spike_trains_[i].times])
        all_trains ==
            Concatenate([i \in 1..Len(spike_trains_) |->
                            [n \in 1..Len(spike_trains_[i].times) |-> i - 1]])
        idx(s) == Where(all_spikes, s)
        found == SelectSeq(NpUnique(all_spikes), LAMBDA s : Len(idx(s)) > 0)
    IN  Return([times |-> Concatenate([k \in 1..Len(found) |->
                              Take(all_spikes, idx(found[k]))]),
                units |-> Concatenate([k \in 1..Len(found) |->
                              Take(all_trains, idx(found[k]))])])

\* Train i of the list (0-based, as enumerate counts) owns the entries its
\* times contribute to all_spikes.  `found` holds the values s of the loop
\* over np.unique(all_spikes) for which the body appends; with none found
\* the code returns two empty arrays, which is what Concatenate gives.
find_synchronous_spikes(spike_trains_) ==
    IF Len(spike_trains_) = 0
    THEN Raise("ValueError", <<>>)
    ELSE
    LET all_spikes ==
            Concatenate([i \in 1..Len(spike_trains_) |-> spike_trains_[i].times])
        all_trains ==
            Concatenate([i \in 1..Len(spike_trains_) |->
                            [n \in 1..Len(spike_trains_[i].times) |-> i - 1]])
        idx(s) == Where(all_spikes, s)
        found == SelectSeq(NpUnique(all_spikes), LAMBDA s : Len(idx(s)) > 1)
    IN  Return([times |-> Concatenate([k \in 1..Len(found) |->
                              Take(all_spikes, idx(found[k]))]),
                units |-> Concatenate([k \in 1..Len(found) |->
                              Take(all_trains, idx(found[k]))])])

MaxTrains == 2       \* a list holds at most MaxTrains spike trains
MaxTrainLen == 2     \* a spike train holds at most MaxTrainLen spikes
MaxTrainTime == 1    \* the timestamps of the trains are 0..MaxTrainTime

TrainTimes == 0..MaxTrainTime
Trains == [times : SeqsUpTo(TrainTimes, MaxTrainLen)]

InitSync ==
    /\ spike_trains \in SeqsUpTo(Trains, MaxTrains)
    /\ spikes = NoTable
    /\ stimuli = NoTable
    /\ tmin = 0
    /\ tmax = 0
    /\ brain_area = NoArea
    /\ max_dur = 0
    /\ min_spikes = 0
    /\ pc = "call"
    /\ ret = <<>>
    /\ exc = "none"
    /\ exc_args = <<>>
    /\ reclip = NoReclip
    /\ trace = <<>>

\* The call find_synchronous_spikes(spike_trains).
FindSynchronousSpikes ==
    /\ pc = "call"
    /\ LET r == find_synchronous_spikes(spike_trains)
       IN  /\ ret' = r.ret
           /\ exc' = r.exc
           /\ exc_args' = r.exc_args
    /\ pc' = "done"
    /\ UNCHANGED <<spikes, stimuli, tmin, tmax, brain_area, max_dur,
                   min_spikes, spike_trains, reclip, trace>>

NextSync == FindSynchronousSpikes

SpecSync == InitSync /\ [][NextSync]_vars

\* ------------------------------------------------------------------ C2
\* How often train number j (0-based) holds the timestamp v.
OccurrencesIn(j, v) ==
    Cardinality({n \in 1..Len(spike_trains[j + 1].times) :
                     spike_trains[j + 1].times[n] = v})

RECURSIVE SumOver(_, _)
SumOver(S, v) ==
    IF S = {} THEN 0
    ELSE LET j == CHOOSE x \in S : TRUE
         IN  OccurrencesIn(j, v) + SumOver(S \ {j}, v)

Owners == 0..(Len(spike_trains) - 1)

\* How often the timestamp v occurs in all trains together.
Occurrences(v) == SumOver(Owners, v)

\* C2: for a non-empty list of trains the call returns times and owners of
\* equal length holding one (timestamp, train index) pair per occurrence of
\* every timestamp that occurs at least twice in all trains together, and
\* no pair for a timestamp that occurs once; the pairs are ordered by
\* ascending timestamp and, within a timestamp, by ascending train index.
C2_SyncPairsPerOccurrence ==
    (pc = "done" /\ Len(spike_trains) > 0) =>
        /\ exc = "none"
        /\ Len(ret.times) = Len(ret.units)
        /\ \A k \in 1..Len(ret.times) :
               ret.times[k] \in TrainTimes /\ ret.units[k] \in Owners
        /\ \A v \in TrainTimes : \A j \in Owners :
               Cardinality({k \in 1..Len(ret.times) :
                                ret.times[k] = v /\ ret.units[k] = j})
                   = IF Occurrences(v) >= 2 THEN OccurrencesIn(j, v) ELSE 0
        /\ \A k, l \in 1..Len(ret.times) :
               k < l => \/ ret.times[k] < ret.times[l]
                        \/ /\ ret.times[k] = ret.times[l]
                           /\ ret.units[k] <= ret.units[l]

\* Two trains that each hold the later timestamp before the earlier one:
\* two timestamps are synchronous and the result is ordered by timestamp.
C2_Witness ==
    /\ pc = "done"
    /\ exc = "none"
    /\ Len(spike_trains) = 2
    /\ Len(spike_trains[1].times) = 2
    /\ spike_trains[1].times[1] > spike_trains[1].times[2]
    /\ Len(ret.times) = 4
    /\ ret.times[1] < ret.times[4]
    /\ ret.units = <<0, 1, 0, 1>>

\* ------------------------------------------------------------------ C3
\* C3: every returned timestamp is shared by two or more distinct trains:
\* the owners paired with it include at least two different train indices.
C3_SyncAcrossDistinctTrains ==
    (pc = "done" /\ exc = "none") =>
        \A k \in 1..Len(ret.times) :
            \E l \in 1..Len(ret.times) :
                ret.times[l] = ret.times[k] /\ ret.units[l] # ret.units[k]

\* ------------------------------------------------------------------ C4
\* C4: a call with an empty list of trains, or with a list whose trains all
\* have no events, returns empty times and empty owners and raises no error.
C4_SyncEmptyInputReturnsEmpty ==
    (pc = "done" /\ \A i \in 1..Len(spike_trains) : Len(spike_trains[i].times) = 0) =>
        /\ exc = "none"
        /\ ret.times = <<>>
        /\ ret.units = <<>>

\* -------------------------------------------------------- load_spike_trains
\* Timestamps of this specification are in tenths of a second: the defaults
\* tmin = -0.1 and tmax = 0.5 of select_spikes_around_stimuli, which
\* load_spike_trains leaves in place.
DefaultTmin == -1
DefaultTmax == 5

\* An optional argument: None, or a given value.
None == <<>>
Some(x) == <<x>>

\* A faulty variant: the window selection is made before the brain-area
\* filter.
LoadStatementsWindowFirst ==
    <<"select_spikes_around_stimuli", "select_brain_area", "clip_spikes",
      "spikes_to_neo">>

\* The statements of load_spike_trains after load_session_data, in the
\* order of the code.
LoadStatements ==
    <<"select_brain_area", "select_spikes_around_stimuli", "clip_spikes",
      "spikes_to_neo">>

\* The statement that runs after statement s; after the last, the return.
StatementAfter(s) ==
    LET k == CHOOSE n \in 1..Len(LoadStatements) : LoadStatements[n] = s
    IN  IF k = Len(LoadStatements) THEN "done" ELSE LoadStatements[k + 1]

Called(name, table) == [call |-> name, spikes |-> table]

MaxLoadRows == 2     \* a loaded spike table has at most MaxLoadRows rows
MaxLoadStim == 1     \* a loaded stimulus table has at most MaxLoadStim rows

\* A timestamp in the window of onsets 0 and 1, one in the window of onset
\* 1 only, and one in the window of no onset.
LoadTimes == {0, DefaultTmax, DefaultTmax + MaxOnset}
LoadAreas == {AreaV, AreaLM}

LoadTables ==
    UNION {{[i \in 1..k |-> Row(ts[i], i, as[i])] :
                ts \in [1..k -> LoadTimes], as \in [1..k -> LoadAreas]}
           : k \in 0..MaxLoadRows}

\* The state after line 115: load_session_data has returned the two tables.
InitLoad ==
    /\ spikes \in LoadTables
    /\ stimuli \in SeqsUpTo([start_time : Onsets], MaxLoadStim)
    /\ brain_area \in {None, Some(AreaLm), Some(<<"v">>), Some(<<"z", "z">>)}
    /\ max_dur \in {None, Some(0), Some(MaxDur)}
    /\ min_spikes = 0
    /\ tmin = DefaultTmin
    /\ tmax = DefaultTmax
    /\ spike_trains = <<>>
    /\ pc = LoadStatements[1]
    /\ ret = <<>>
    /\ exc = "none"
    /\ exc_args = <<>>
    /\ reclip = NoReclip
    /\ trace = <<Called("load_session_data", spikes)>>

\* if brain_area is not None: spikes = select_brain_area(spikes, brain_area)
\* A ValueError of select_brain_area ends load_spike_trains.
LoadSelectBrainArea ==
    /\ pc = "select_brain_area"
    /\ IF brain_area = None
       THEN /\ pc' = StatementAfter(pc)
            /\ UNCHANGED <<spikes, exc, exc_args, trace>>
       ELSE LET r == select_brain_area(spikes, brain_area[1])
            IN  /\ trace' = Append(trace, Called("select_brain_area", spikes))
                /\ exc' = r.exc
                /\ exc_args' = r.exc_args
                /\ IF r.exc = "none"
                   THEN spikes' = r.ret /\ pc' = StatementAfter(pc)
                   ELSE spikes' = spikes /\ pc' = "raised"
    /\ UNCHANGED <<stimuli, tmin, tmax, brain_area, max_dur, min_spikes,
                   spike_trains, ret, reclip>>

\* spikes = select_spikes_around_stimuli(spikes, stimuli)
LoadSelectSpikesAroundStimuli ==
    /\ pc = "select_spikes_around_stimuli"
    /\ trace' = Append(trace, Called("select_spikes_around_stimuli", spikes))
    /\ spikes' = select_spikes_around_stimuli(spikes, stimuli, tmin, tmax)
    /\ pc' = StatementAfter(pc)
    /\ UNCHANGED <<stimuli, tmin, tmax, brain_area, max_dur, min_spikes,
                   spike_trains, ret, exc, exc_args, reclip>>

\* if max_dur is not None: spikes = clip_spikes(spikes, max_dur)
LoadClipSpikes ==
    /\ pc = "clip_spikes"
    /\ IF max_dur = None
       THEN UNCHANGED <<spikes, trace>>
       ELSE /\ trace' = Append(trace, Called("clip_spikes", spikes))
            /\ spikes' = clip_spikes(spikes, max_dur[1])
    /\ pc' = StatementAfter(pc)
    /\ UNCHANGED <<stimuli, tmin, tmax, brain_area, max_dur, min_spikes,
                   spike_trains, ret, exc, exc_args, reclip>>

\* spike_trains = spikes_to_neo(spikes, min_spikes); return spike_trains
LoadSpikesToNeo ==
    /\ pc = "spikes_to_neo"
    /\ trace' = Append(trace, Called("spikes_to_neo", spikes))
    /\ spike_trains' = spikes_to_neo(spikes, min_spikes)
    /\ ret' = spike_trains'
    /\ pc' = StatementAfter(pc)
    /\ UNCHANGED <<spikes, stimuli, tmin, tmax, brain_area, max_dur,
                   min_spikes, exc, exc_args, reclip>>

NextLoad ==
    \/ LoadSelectBrainArea
    \/ LoadSelectSpikesAroundStimuli
    \/ LoadClipSpikes
    \/ LoadSpikesToNeo

SpecLoad == InitLoad /\ [][NextLoad]_vars

\* ------------------------------------------------------------------ C11
\* The timestamp t lies in the default window of some loaded stimulus.
InDefaultWindow(t) ==
    \E j \in 1..Len(stimuli) :
        /\ stimuli[j].start_time - 1 <= t
        /\ t < stimuli[j].start_time + 5

CallsMade == [k \in 1..Len(trace) |-> trace[k].call]

\* C11 as claimed: window selection comes first, then the brain-area filter
\* and the clipping work on the selected spikes, and the grouping is last;
\* the brain-area filter (and with it its unknown-attribute check) receives
\* the window-selected table.
C11_WindowSelectionFirst ==
    \A k \in 1..Len(trace) :
        /\ trace[k].call \in {"select_brain_area", "clip_spikes"} =>
               /\ \E j \in 1..(k - 1) :
                      trace[j].call = "select_spikes_around_stimuli"
               /\ \A i \in 1..Len(trace[k].spikes) :
                      InDefaultWindow(trace[k].spikes[i].spike_time)
        /\ trace[k].call = "spikes_to_neo" => k = Len(trace)

\* The position of each call in the order the code has.
CallRank(name) ==
    CASE name = "load_session_data" -> 0
      [] name = "select_brain_area" -> 1
      [] name = "select_spikes_around_stimuli" -> 2
      [] name = "clip_spikes" -> 3
      [] name = "spikes_to_neo" -> 4

\* The rows of the loaded table that have the requested brain area.
LoadedOfArea ==
    {i \in 1..Len(trace[1].spikes) :
         trace[1].spikes[i].brain_area = UppercaseOf(brain_area[1])}

\* C11 as amended: the brain-area filter comes first (when brain_area is
\* given) and receives the table as loaded, so its unknown-attribute check
\* is evaluated on the loaded table, before any window selection; then
\* comes the window selection, on the filtered table; then the clipping
\* (when max_dur is given), on the window-selected table; the grouping is
\* last.
C11_BrainAreaFilterFirst ==
    Len(trace) > 0 =>
        /\ \A j, k \in 1..Len(trace) :
               j < k => CallRank(trace[j].call) < CallRank(trace[k].call)
        /\ \A k \in 1..Len(trace) :
               /\ trace[k].call = "spikes_to_neo" => k = Len(trace)
               /\ trace[k].call = "select_brain_area" =>
                      /\ brain_area # None
                      /\ trace[k].spikes = trace[1].spikes
               /\ trace[k].call = "select_spikes_around_stimuli" =>
                      IF brain_area = None
                      THEN trace[k].spikes = trace[1].spikes
                      ELSE /\ Len(trace[k].spikes) = Cardinality(LoadedOfArea)
                           /\ \A i \in 1..Len(trace[k].spikes) :
                                  trace[k].spikes[i].brain_area
                                      = UppercaseOf(brain_area[1])
               /\ trace[k].call = "clip_spikes" =>
                      /\ max_dur # None
                      /\ \A i \in 1..Len(trace[k].spikes) :
                             InDefaultWindow(trace[k].spikes[i].spike_time)
        /\ pc = "raised" =>
               /\ exc = "ValueError"
               /\ brain_area # None
               /\ LoadedOfArea = {}
               /\ CallsMade = <<"load_session_data", "select_brain_area">>
        /\ pc = "done" =>
               /\ exc = "none"
               /\ brain_area # None => LoadedOfArea # {}
               /\ CallsMade =
                      <<"load_session_data">>
                      \o (IF brain_area = None THEN <<>> ELSE <<"select_brain_area">>)
                      \o <<"select_spikes_around_stimuli">>
                      \o (IF max_dur = None THEN <<>> ELSE <<"clip_spikes">>)
                      \o <<"spikes_to_neo">>

\* A finished call with all four stages where the loaded table has rows of
\* the requested brain area, none of them in a stimulus window, and a row
\* of another area in a window: the filter accepted the area on the loaded
\* table, though the window-selected table does not hold it.
C11_Witness ==
    /\ pc = "done"
    /\ brain_area # None
    /\ max_dur # None
    /\ Len(trace) = 5
    /\ ret = <<>>
    /\ \E i \in 1..Len(trace[1].spikes) :
           InDefaultWindow(trace[1].spikes[i].spike_time)
    /\ \A i \in LoadedOfArea :
           ~InDefaultWindow(trace[1].spikes[i].spike_time)

====
